---- MODULE Spec2Model ----
(***************************************************************************)
(* Skill-Gap Masr: the ingestion pipeline (ingest.py), the gap analyzer    *)
(* (rag_engine.py) and the two button handlers of the UI (app.py).         *)
(*                                                                         *)
(* Text is a sequence of one-character strings.  The persisted Chroma      *)
(* collection 'skill_gap_masr' is a sequence of records in insertion       *)
(* order.  The external services (embedding model, chat completion) are    *)
(* inputs of the actions: whether they answer, and with what.              *)
(***************************************************************************)
EXTENDS Integers, Sequences, FiniteSets, TLC

\* ------------------------------------------------------------------ bounds
MaxRebuilds == 2    \* create_vector_store calls in one run of the UI session
MaxK == 6           \* largest explicit k handed to get_relevant_jobs
MaxJobRecords == 6  \* job-tagged records in a store of the analyzer API runs
MaxCvRecords == 1   \* CV-tagged records in a store of the analyzer API runs

\* ------------------------------------------------------------------ config.py
CHUNK_SIZE == 500
CHUNK_OVERLAP == 50
RETRIEVAL_K == 5
DOC_TYPE_JOB == "job_description"
DOC_TYPE_CV == "student_cv"

\* ------------------------------------------------------------------ text
NL == "\n"
Whitespace == {" ", NL, "\t", "\r"}

Min(a, b) == IF a <= b THEN a ELSE b

\* s[from..] and s[..to] of Python, 1-based here
Drop(s, n) == IF n >= Len(s) THEN << >> ELSE SubSeq(s, n + 1, Len(s))
Take(s, n) == IF n <= 0 THEN << >> ELSE SubSeq(s, 1, Min(n, Len(s)))

\* sub occurs in s starting at position i
MatchAt(s, sub, i) ==
    /\ i >= 1
    /\ i + Len(sub) - 1 <= Len(s)
    /\ \A j \in 1..Len(sub) : s[i + j - 1] = sub[j]

\* Python's `sub in s`
Contains(s, sub) == \E i \in 1..(Len(s) - Len(sub) + 1) : MatchAt(s, sub, i)

EndsWith(s, suffix) ==
    /\ Len(suffix) <= Len(s)
    /\ MatchAt(s, suffix, Len(s) - Len(suffix) + 1)

\* str.strip()
RECURSIVE LStrip(_)
LStrip(s) == IF s # << >> /\ Head(s) \in Whitespace THEN LStrip(Tail(s)) ELSE s

RECURSIVE RStrip(_)
RStrip(s) ==
    IF s # << >> /\ s[Len(s)] \in Whitespace
    THEN RStrip(SubSeq(s, 1, Len(s) - 1))
    ELSE s

Strip(s) == RStrip(LStrip(s))

\* "".join(parts[lo..hi]), the two halves joined
RECURSIVE ConcatRange(_, _, _)
ConcatRange(parts, lo, hi) ==
    IF lo > hi THEN << >>
    ELSE IF lo = hi THEN parts[lo]
    ELSE ConcatRange(parts, lo, (lo + hi) \div 2)
             \o ConcatRange(parts, ((lo + hi) \div 2) + 1, hi)

\* "".join(parts)
Concat(parts) == CHOOSE text \in {ConcatRange(p, 1, Len(p)) : p \in {parts}} : TRUE

\* sep.join(parts)
Join(sep, parts) ==
    Concat([i \in 1..Len(parts) |-> IF i = 1 THEN parts[i] ELSE sep \o parts[i]])

\* [s for s in parts if s != ""]
SelectNonEmpty(parts) ==
    Concat([i \in 1..Len(parts) |-> IF parts[i] = << >> THEN << >> ELSE << parts[i] >>])

\* ------------------------------------------------------------------ ingest.py: load_documents
TxtExt == << ".", "t", "x", "t" >>
PdfExt == << ".", "p", "d", "f" >>

\* A Document: page_content and the two metadata keys the pipeline sets.
Document(content, doc_type, source_name) ==
    [page_content |-> content,
     metadata |-> [doc_type |-> doc_type, source_name |-> source_name]]

\* glob="**/*.txt" and directory.glob("**/*.pdf")
TxtFiles(directory) == SelectSeq(directory.files, LAMBDA f : EndsWith(f.name, TxtExt))
PdfFiles(directory) == SelectSeq(directory.files, LAMBDA f : EndsWith(f.name, PdfExt))

\* DirectoryLoader(...).load() with the default silent_errors=False: the first
\* file TextLoader cannot decode raises out of load(), so no document of the
\* batch is returned to the caller.
TxtLoaderRaises(directory) ==
    \E i \in 1..Len(TxtFiles(directory)) : ~TxtFiles(directory)[i].readable

\* lines 56-75: on success every .txt document is tagged and appended; on an
\* exception the except branch prints a warning and nothing was appended.
LoadTxt(directory, doc_type) ==
    IF TxtLoaderRaises(directory)
    THEN << >>
    ELSE [i \in 1..Len(TxtFiles(directory)) |->
            Document(TxtFiles(directory)[i].pages[1], doc_type,
                     TxtFiles(directory)[i].name)]

\* lines 82-94: PyPDFLoader(path).load() gives one Document per page; a file
\* that raises is reported and the loop goes on with the next file.
LoadOnePdf(f, doc_type) ==
    IF f.readable
    THEN [p \in 1..Len(f.pages) |-> Document(f.pages[p], doc_type, f.name)]
    ELSE << >>

RECURSIVE LoadPdfs(_, _)
LoadPdfs(files, doc_type) ==
    IF files = << >> THEN << >>
    ELSE LoadOnePdf(Head(files), doc_type) \o LoadPdfs(Tail(files), doc_type)

\* The warnings load_documents prints (lines 75 and 94).
LoadWarnings(directory) ==
    (IF TxtLoaderRaises(directory) THEN 1 ELSE 0)
    + Cardinality({i \in 1..Len(PdfFiles(directory)) : ~PdfFiles(directory)[i].readable})

\* a load_documents without the directory.exists() check: a missing directory
\* reads as an empty one
load_documents_unchecked(directory, doc_type) ==
    [raised |-> "none",
     documents |-> LoadTxt(directory, doc_type) \o LoadPdfs(PdfFiles(directory), doc_type),
     warnings |-> LoadWarnings(directory)]

\* load_documents(directory, doc_type)
load_documents(directory, doc_type) ==
    IF ~directory.exists
    THEN [raised |-> "FileNotFoundError", documents |-> << >>, warnings |-> 0]
    ELSE [raised |-> "none",
          documents |-> LoadTxt(directory, doc_type)
                        \o LoadPdfs(PdfFiles(directory), doc_type),
          warnings |-> LoadWarnings(directory)]

\* ------------------------------------------------------------------ ingest.py: chunk_documents
\* RecursiveCharacterTextSplitter(chunk_size, chunk_overlap, length_function=len,
\* separators=[...]) with its defaults keep_separator=True, strip_whitespace=True.
Separators == << << NL, NL >>, << NL >>, << ".", " " >>, << ",", " " >>, << " " >>, << >> >>

\* the leftmost occurrence of sep in text at or after position from, 0 if none
NextMatch(text, sep, from) ==
    LET found == {i \in from..(Len(text) - Len(sep) + 1) : MatchAt(text, sep, i)}
    IN  IF found = {} THEN 0 ELSE CHOOSE i \in found : \A j \in found : i <= j

\* re.split("(sep)", text) regrouped with the separator kept at the start of the
\* piece that follows it: the piece that starts at start, then the pieces after
\* the next occurrence of sep at or after from.  Empty pieces are dropped by
\* the caller.
RECURSIVE SplitKeep(_, _, _, _)
SplitKeep(text, sep, start, from) ==
    LET m == NextMatch(text, sep, from)
    IN  IF m = 0 THEN << SubSeq(text, start, Len(text)) >>
        ELSE << SubSeq(text, start, m - 1) >> \o SplitKeep(text, sep, m, m + Len(sep))

\* _split_text_with_regex(text, separator, keep_separator=True)
SplitWithRegex(text, sep) ==
    SelectNonEmpty(IF sep = << >>
                   THEN [i \in 1..Len(text) |-> << text[i] >>]
                   ELSE SplitKeep(text, sep, 1, 1))

\* a _join_docs that keeps the whitespace at the ends of the joined text
JoinDocsNoStrip(current_doc) == Concat(current_doc)

\* _join_docs(docs, "") with strip_whitespace: None (here << >>) when blank
JoinDocs(current_doc) == Strip(Concat(current_doc))

\* the while loop of _merge_splits: drop leading pieces of current_doc until the
\* kept tail is within the overlap and the next piece fits.  total is the
\* length of the pieces of current_doc (the separator between them is ""), so
\* the loop stops after the least number of pops that falsifies its condition.
PopOverlap(current_doc, total, len) ==
    LET After(p) == total - Len(Concat(Take(current_doc, p)))
        Goes(t) == t > CHUNK_OVERLAP \/ (t + len > CHUNK_SIZE /\ t > 0)
        pops == CHOOSE p \in 0..Len(current_doc) :
                    /\ ~Goes(After(p))
                    /\ \A q \in 0..(p - 1) : Goes(After(q))
    IN  [current_doc |-> Drop(current_doc, pops), total |-> After(pops)]

\* one iteration of `for d in splits` of _merge_splits on its local variables
MergeStep(st, d) ==
    LET flush == st.total + Len(d) > CHUNK_SIZE /\ Len(st.current_doc) > 0
        doc == JoinDocs(st.current_doc)
        kept == IF flush THEN PopOverlap(st.current_doc, st.total, Len(d))
                ELSE [current_doc |-> st.current_doc, total |-> st.total]
    IN  [docs |-> IF flush /\ doc # << >> THEN Append(st.docs, doc) ELSE st.docs,
         current_doc |-> Append(kept.current_doc, d),
         total |-> kept.total + Len(d)]

\* the iterations lo..hi of that loop, in order, from the variables st
RECURSIVE MergeRange(_, _, _, _)
MergeRange(splits, st, lo, hi) ==
    IF lo > hi THEN st
    ELSE IF lo = hi
    THEN CHOOSE next \in {MergeStep(s, splits[lo]) : s \in {st}} : TRUE
    ELSE CHOOSE next \in {MergeRange(splits, s, ((lo + hi) \div 2) + 1, hi) :
                              s \in {MergeRange(splits, st, lo, (lo + hi) \div 2)}} : TRUE

\* the end of _merge_splits: what is left in current_doc is the last chunk
MergeEnd(st) ==
    CHOOSE docs \in {IF doc = << >> THEN st.docs ELSE Append(st.docs, doc) :
                        doc \in {JoinDocs(st.current_doc)}} : TRUE

\* _merge_splits(splits, separator="")
MergeSplits(splits) ==
    CHOOSE docs \in
        {MergeEnd(st) :
            st \in {MergeRange(s, [docs |-> << >>, current_doc |-> << >>, total |-> 0],
                               1, Len(s)) : s \in {splits}}} : TRUE

\* the separator _split_text picks: the first of the list that is "" or occurs
\* in the text; the separators after it are left for the pieces still too long
RECURSIVE PickSeparator(_, _, _)
PickSeparator(text, separators, i) ==
    IF i > Len(separators)
    THEN [separator |-> separators[Len(separators)], rest |-> << >>]
    ELSE IF separators[i] = << >>
    THEN [separator |-> << >>, rest |-> << >>]
    ELSE IF Contains(text, separators[i])
    THEN [separator |-> separators[i], rest |-> Drop(separators, i)]
    ELSE PickSeparator(text, separators, i + 1)

\* _split_text(text, separators)
RECURSIVE SplitText(_, _)

\* one iteration of `for s in splits` of _split_text on its local variables
SplitStep(st, s, rest) ==
    IF Len(s) < CHUNK_SIZE
    THEN [good |-> Append(st.good, s), final |-> st.final]
    ELSE [good |-> << >>,
          final |-> (IF st.good = << >> THEN st.final
                     ELSE st.final \o MergeSplits(st.good))
                    \o (IF rest = << >> THEN << s >> ELSE SplitText(s, rest))]

\* the iterations lo..hi of that loop, in order, from the variables st
RECURSIVE SplitRange(_, _, _, _, _)
SplitRange(splits, rest, st, lo, hi) ==
    IF lo > hi THEN st
    ELSE IF lo = hi
    THEN CHOOSE next \in {SplitStep(s, splits[lo], rest) : s \in {st}} : TRUE
    ELSE CHOOSE next \in {SplitRange(splits, rest, s, ((lo + hi) \div 2) + 1, hi) :
                              s \in {SplitRange(splits, rest, st, lo, (lo + hi) \div 2)}} : TRUE

\* the loop of _split_text and the merge of what is left after it
SplitLoop(splits, rest) ==
    CHOOSE final \in
        {IF st.good = << >> THEN st.final ELSE st.final \o MergeSplits(st.good) :
            st \in {SplitRange(s, rest, [good |-> << >>, final |-> << >>], 1, Len(s)) :
                        s \in {splits}}} : TRUE

SplitText(text, separators) ==
    LET pick == PickSeparator(text, separators, 1)
    IN  SplitLoop(SplitWithRegex(text, pick.separator), pick.rest)

\* a split_documents that builds its chunks without the document's doc_type
ChunksOfUntagged(doc) ==
    LET texts == SplitText(doc.page_content, Separators)
    IN  [i \in 1..Len(texts) |->
            [page_content |-> texts[i],
             metadata |-> [doc_type |-> "", source_name |-> doc.metadata.source_name]]]

\* split_documents: every chunk of a document carries a copy of its metadata
ChunksOf(doc) ==
    LET texts == SplitText(doc.page_content, Separators)
    IN  [i \in 1..Len(texts) |-> [page_content |-> texts[i], metadata |-> doc.metadata]]

RECURSIVE chunk_documents(_)
chunk_documents(documents) ==
    IF documents = << >> THEN << >>
    ELSE ChunksOf(Head(documents)) \o chunk_documents(Tail(documents))

\* ------------------------------------------------------------------ the vector store
\* A persisted record: the chunk, and the id Chroma.from_documents gives it (a
\* fresh uuid4 per record of every call: here the call's number and the
\* record's position in the call).
Record(chunk, call, i) ==
    [page_content |-> chunk.page_content, metadata |-> chunk.metadata,
     id |-> << call, i >>]

\* Chroma.from_documents(documents, persist_directory, collection_name): the
\* named collection is opened with get-or-create and the documents are added
\* under new ids; what the collection already holds stays.
FromDocuments(collection, chunks, call) ==
    collection \o [i \in 1..Len(chunks) |-> Record(chunks[i], call, i)]

\* The embedding model is a deterministic function of the text; its geometry is
\* stood for by the characters a text uses: the distance of two texts is the
\* number of characters that occur in one and not in the other.
CharsOf(text) == {text[i] : i \in 1..Len(text)}
Distance(a, b) ==
    Cardinality((CharsOf(a) \ CharsOf(b)) \cup (CharsOf(b) \ CharsOf(a)))

\* a search that drops the metadata filter
MatchingAll(collection, doc_type) == 1..Len(collection)

\* the positions of the records that pass filter={"doc_type": doc_type}
Matching(collection, doc_type) ==
    {i \in 1..Len(collection) : collection[i].metadata.doc_type = doc_type}

\* the nearest of a set of positions, the earliest inserted among equals
Nearest(collection, query, candidates) ==
    CHOOSE i \in candidates :
        \A j \in candidates :
            \/ Distance(query, collection[i].page_content)
                 < Distance(query, collection[j].page_content)
            \/ /\ Distance(query, collection[i].page_content)
                    = Distance(query, collection[j].page_content)
               /\ i <= j

RECURSIVE Ranked(_, _, _, _)
Ranked(collection, query, candidates, k) ==
    IF k = 0 \/ candidates = {} THEN << >>
    ELSE LET best == Nearest(collection, query, candidates)
         IN  << collection[best] >>
             \o Ranked(collection, query, candidates \ {best}, k - 1)

\* vector_store.similarity_search(query, k, filter): the k nearest of the
\* matching records, fewer when fewer match
similarity_search(collection, query, k, doc_type) ==
    Ranked(collection, query, Matching(collection, doc_type), k)

\* ------------------------------------------------------------------ rag_engine.py
None == 0   \* k omitted

\* a get_relevant_jobs that ignores the k it is given
get_relevant_jobs_ignoring_k(collection, role, k) ==
    similarity_search(collection, role, RETRIEVAL_K, DOC_TYPE_JOB)

\* get_relevant_jobs(role, k=None)
get_relevant_jobs(collection, role, k) ==
    similarity_search(collection, role, IF k = None THEN RETRIEVAL_K ELSE k,
                      DOC_TYPE_JOB)

\* the literals of analyze_gap
NoJobsMessage == << "No relevant job descriptions found! Please make sure you've run the ingestion pipeline" >>
SourcePrefix == << "*", "*", "S", "o", "u", "r", "c", "e", ":", "*", "*", " " >>
ContextSeparator == << NL, NL, "-", "-", "-", NL, NL >>
Unknown == << "U", "n", "k", "n", "o", "w", "n" >>
ErrorPrefix == << "Error generating analysis: " >>
ErrorSuffix == << "This might be a temporary API issue. Please try again." >>

\* doc.metadata.get('source_name', 'Unknown')
SourceName(doc) ==
    IF "source_name" \in DOMAIN doc.metadata THEN doc.metadata.source_name ELSE Unknown

\* an entry that cuts the chunk's text short
ContextEntryTruncated(doc) ==
    SourcePrefix \o SourceName(doc) \o << NL, NL >> \o Take(doc.page_content, 20)

\* f"**Source:** {source_name}\n\n{doc.page_content}"
ContextEntry(doc) == SourcePrefix \o SourceName(doc) \o << NL, NL >> \o doc.page_content

\* lines 214-219: "\n\n---\n\n".join([...])
JobContext(relevant_jobs) ==
    Join(ContextSeparator, [i \in 1..Len(relevant_jobs) |-> ContextEntry(relevant_jobs[i])])

\* a chain that is invoked again when the first invocation fails
RunChainRetry(role, job_context, cv_text, completion) ==
    [events |-> IF completion.ok THEN << "completion" >>
                ELSE << "completion", "completion" >>,
     value |-> IF completion.ok THEN completion.text
               ELSE ErrorPrefix \o completion.text \o ErrorSuffix]

\* lines 222-232: chain.invoke once inside the try; its result is returned, an
\* exception becomes the error string.  completion is what the service does:
\* [ok |-> TRUE, text |-> the response] or [ok |-> FALSE, text |-> str(e)].
RunChain(role, job_context, cv_text, completion) ==
    [events |-> << "completion" >>,
     value |-> IF completion.ok THEN completion.text
               ELSE ErrorPrefix \o completion.text \o ErrorSuffix]

NoCall ==
    [fn |-> "none", role |-> << >>, k |-> None, cv_text |-> << >>, outcome |-> "none",
     value |-> << >>, relevant_jobs |-> << >>, job_context |-> << >>, events |-> << >>]

\* a check that never takes the "no data" branch
NoJobsNever(relevant_jobs) == FALSE

\* line 205: `if not relevant_jobs`
NoJobs(relevant_jobs) == relevant_jobs = << >>

\* analyze_gap(cv_text, role).  embed_ok: the embedding of the query succeeds.
analyze_gap(collection, cv_text, role, embed_ok, completion) ==
    LET relevant_jobs == get_relevant_jobs(collection, role, None)
        job_context == JobContext(relevant_jobs)
        chain == RunChain(role, job_context, cv_text, completion)
        base == [NoCall EXCEPT !.fn = "analyze_gap", !.role = role, !.cv_text = cv_text]
    IN  IF ~embed_ok
        THEN \* line 203 is outside the try: the exception leaves analyze_gap
             [base EXCEPT !.outcome = "raised", !.value = << "embedding failed" >>,
                          !.events = << "embed_query" >>]
        ELSE IF NoJobs(relevant_jobs)
        THEN [base EXCEPT !.outcome = "returned", !.value = NoJobsMessage,
                          !.events = << "embed_query" >>]
        ELSE [base EXCEPT !.outcome = "returned", !.value = chain.value,
                          !.relevant_jobs = relevant_jobs,
                          !.job_context = job_context,
                          !.events = << "embed_query" >> \o chain.events]

\* ------------------------------------------------------------------ ingest.py: run_ingestion
\* create_vector_store(chunks, embeddings).  fail is where the run breaks:
\* "embed_documents" while from_documents embeds the chunks, before anything
\* is added.  The mkdir of line 179 comes first in every case.
create_vector_store(collection, chunks, call, fail) ==
    IF fail = "embed_documents"
    THEN [raised |-> TRUE, dir_exists |-> TRUE, collection |-> collection, wrote |-> FALSE]
    ELSE [raised |-> FALSE, dir_exists |-> TRUE,
          collection |-> FromDocuments(collection, chunks, call), wrote |-> TRUE]

NoIngest ==
    [outcome |-> "none", stage |-> "none", documents |-> << >>, chunks |-> << >>,
     wrote |-> FALSE, jobs_dir_exists |-> FALSE, cvs_dir_exists |-> FALSE]

\* run_ingestion().  The result carries the state it leaves: the persisted
\* collection, whether the persist directory exists, the from_documents calls
\* made so far.  fail: "none", "load_model" (create_embeddings raises, line
\* 246), "embed_documents" (inside create_vector_store), "after_write" (an
\* exception once records are persisted: a later batch of from_documents, or
\* lines 191-261).
run_ingestion(jobs_dir, cvs_dir, fail, collection, dir_exists, calls) ==
    LET job == load_documents(jobs_dir, DOC_TYPE_JOB)
        cv == load_documents(cvs_dir, DOC_TYPE_CV)
        all_documents == job.documents \o cv.documents
        chunks == chunk_documents(all_documents)
        store == create_vector_store(collection, chunks, calls + 1, fail)
        same == [collection |-> collection, dir_exists |-> dir_exists, calls |-> calls]
        base == [NoIngest EXCEPT !.jobs_dir_exists = jobs_dir.exists,
                                 !.cvs_dir_exists = cvs_dir.exists]
    IN  IF job.raised = "FileNotFoundError"
        THEN same @@ [report |-> [base EXCEPT !.outcome = "None", !.stage = "load_jobs"]]
        ELSE IF cv.raised = "FileNotFoundError"
        THEN same @@ [report |-> [base EXCEPT !.outcome = "None", !.stage = "load_cvs",
                                              !.documents = job.documents]]
        ELSE IF all_documents = << >>
        THEN same @@ [report |-> [base EXCEPT !.outcome = "None", !.stage = "no_documents"]]
        ELSE IF fail = "load_model"
        THEN same @@ [report |-> [base EXCEPT !.outcome = "raised", !.stage = "create_embeddings",
                                              !.documents = all_documents, !.chunks = chunks]]
        ELSE [collection |-> store.collection, dir_exists |-> store.dir_exists,
              calls |-> IF store.wrote THEN calls + 1 ELSE calls,
              report |-> [base EXCEPT
                  !.outcome = IF store.raised \/ fail = "after_write"
                              THEN "raised" ELSE "vector_store",
                  !.stage = IF store.raised THEN "create_vector_store" ELSE "summary",
                  !.documents = all_documents, !.chunks = chunks,
                  !.wrote = store.wrote]]

\* ------------------------------------------------------------------ rag_engine.py: __init__
NoAnalyzer == [present |-> FALSE, constructed_at |-> 0]

\* a constructor without the persist directory check
SkillGapAnalyzerNoDirCheck(api_key_ok, embed_load_ok, dir_exists, calls) ==
    IF ~api_key_ok THEN [raised |-> "ValueError", analyzer |-> NoAnalyzer]
    ELSE IF ~embed_load_ok THEN [raised |-> "Exception", analyzer |-> NoAnalyzer]
    ELSE [raised |-> "none", analyzer |-> [present |-> TRUE, constructed_at |-> calls]]

\* SkillGapAnalyzer(): the key check, the embedding model, the persist
\* directory check, then the store handle, the LLM client and the chain.
SkillGapAnalyzer(api_key_ok, embed_load_ok, dir_exists, calls) ==
    IF ~api_key_ok THEN [raised |-> "ValueError", analyzer |-> NoAnalyzer]
    ELSE IF ~embed_load_ok THEN [raised |-> "Exception", analyzer |-> NoAnalyzer]
    ELSE IF ~dir_exists THEN [raised |-> "FileNotFoundError", analyzer |-> NoAnalyzer]
    ELSE [raised |-> "none", analyzer |-> [present |-> TRUE, constructed_at |-> calls]]

\* ------------------------------------------------------------------ state
VARIABLES
    chroma_dir_exists,  \* config.CHROMA_PERSIST_DIR exists
    collection,         \* the persisted collection 'skill_gap_masr'
    calls,              \* from_documents calls that persisted records so far
    analyzer,           \* st.session_state["analyzer"]
    ui,                 \* what the last operation showed (nothing, for the script)
    call,               \* the analyzer call of the last operation, if it made one
    ingest,             \* the run_ingestion of the last operation, if it made one
    load                \* the last call of load_documents on its own

vars == << chroma_dir_exists, collection, calls, analyzer, ui, call, ingest, load >>

NoUi == [msg |-> "none", text |-> << >>]
NoLoad ==
    [directory |-> [exists |-> FALSE, files |-> << >>], doc_type |-> DOC_TYPE_JOB,
     done |-> FALSE, raised |-> "none", documents |-> << >>, warnings |-> 0]

\* ------------------------------------------------------------------ inputs
File(name, readable, pages) == [name |-> name, readable |-> readable, pages |-> pages]
Dir(files) == [exists |-> TRUE, files |-> files]
MissingDir == [exists |-> FALSE, files |-> << >>]

BackendJob ==
    << "J", "O", "B", " ", "T", "I", "T", "L", "E", ":", " ", "B", "a", "c", "k", "e",
       "n", "d", " ", "D", "e", "v", "e", "l", "o", "p", "e", "r", NL, "R", "e", "q",
       "u", "i", "r", "e", "s", ":", " ", "P", "y", "t", "h", "o", "n", ",", " ", "S",
       "Q", "L" >>
SkillsPython ==
    << "S", "K", "I", "L", "L", "S", ":", " ", "P", "y", "t", "h", "o", "n" >>
MlJob == << "m", "l", " ", "p", "y" >>
WebJob == << "w", "e", "b", ",", " ", "j", "s" >>
BlankCv == << " ", NL >>

J1 == File(<< "j", "1", ".", "t", "x", "t" >>, TRUE, << WebJob >>)
J2 == File(<< "j", "2", ".", "t", "x", "t" >>, FALSE, << MlJob >>)
J3 == File(<< "j", "3", ".", "p", "d", "f" >>, TRUE, << MlJob, WebJob >>)
J4 == File(<< "j", "4", ".", "p", "d", "f" >>, FALSE, << WebJob >>)
J5 == File(<< "j", "5", ".", "t", "x", "t" >>, TRUE, << WebJob >>)
J6 == File(<< "j", "6", ".", "d", "o", "c", "x" >>, TRUE, << MlJob >>)
C1File == File(<< "c", "1", ".", "t", "x", "t" >>, TRUE, << SkillsPython >>)

\* the directories the session's rebuilds find
JobDirs == {MissingDir, Dir(<< >>), Dir(<< J1, J3, J4 >>)}
CvDirs == {MissingDir, Dir(<< >>), Dir(<< C1File >>)}
Fails == {"none", "load_model", "embed_documents", "after_write"}

Roles == {<< "m", "l" >>, << "w", "e", "b" >>}
CvTexts == {SkillsPython, BlankCv}
Report == [ok |-> TRUE, text |-> << "report" >>]
Timeout == [ok |-> FALSE, text |-> << "timeout" >>]
RateLimit == [ok |-> FALSE, text |-> << "rate limit" >>]
Completions == {Report, Timeout, RateLimit}

\* what the services do during one click of "Analyze": all answer; the key is
\* not configured; the embedding model fails to load, or to embed the query;
\* the completion fails
Env(api_key_ok, embed_load_ok, embed_query_ok, completion) ==
    [api_key_ok |-> api_key_ok, embed_load_ok |-> embed_load_ok,
     embed_query_ok |-> embed_query_ok, completion |-> completion]
Envs ==
    {Env(TRUE, TRUE, TRUE, Report), Env(FALSE, TRUE, TRUE, Report),
     Env(TRUE, FALSE, TRUE, Report), Env(TRUE, TRUE, FALSE, Report),
     Env(TRUE, TRUE, TRUE, Timeout), Env(TRUE, TRUE, TRUE, RateLimit)}

\* ------------------------------------------------------------------ the UI session (app.py)
Init ==
    /\ chroma_dir_exists = FALSE
    /\ collection = << >>
    /\ calls = 0
    /\ analyzer = NoAnalyzer
    /\ ui = NoUi
    /\ call = NoCall
    /\ ingest = NoIngest
    /\ load = NoLoad

\* app.py 154-163: the "Rebuild Vector Store" button
RebuildClicked(jobs_dir, cvs_dir, fail) ==
    \E r \in {run_ingestion(jobs_dir, cvs_dir, fail, collection, chroma_dir_exists, calls)} :
        /\ calls < MaxRebuilds
        /\ chroma_dir_exists' = r.dir_exists
        /\ collection' = r.collection
        /\ calls' = r.calls
        /\ ingest' = r.report
        /\ ui' = IF r.report.outcome = "raised"
                 THEN [msg |-> "rebuild_error", text |-> << >>]
                 ELSE [msg |-> "rebuild_success", text |-> << >>]
        /\ analyzer' = IF r.report.outcome = "raised" THEN analyzer ELSE NoAnalyzer
        /\ call' = NoCall
        /\ UNCHANGED load

\* ingest.py 266-268: `python ingest.py`, outside the UI session
IngestScript(jobs_dir, cvs_dir, fail) ==
    \E r \in {run_ingestion(jobs_dir, cvs_dir, fail, collection, chroma_dir_exists, calls)} :
        /\ calls < MaxRebuilds
        /\ chroma_dir_exists' = r.dir_exists
        /\ collection' = r.collection
        /\ calls' = r.calls
        /\ ingest' = r.report
        /\ ui' = NoUi
        /\ call' = NoCall
        /\ UNCHANGED << analyzer, load >>

\* app.py 249-281: the try block of the analysis section
RunAnalysis(cv_text, role, api_key_ok, embed_load_ok, embed_query_ok, completion) ==
    LET made == IF analyzer.present
                THEN [raised |-> "none", analyzer |-> analyzer]
                ELSE SkillGapAnalyzer(api_key_ok, embed_load_ok, chroma_dir_exists, calls)
        report == analyze_gap(collection, cv_text, role, embed_query_ok, completion)
    IN  IF made.raised = "FileNotFoundError"
        THEN [analyzer |-> made.analyzer, call |-> NoCall,
              ui |-> [msg |-> "vector_store_not_found", text |-> << >>]]
        ELSE IF made.raised # "none"
        THEN [analyzer |-> made.analyzer, call |-> NoCall,
              ui |-> [msg |-> "error", text |-> << made.raised >>]]
        ELSE IF report.outcome = "raised"
        THEN [analyzer |-> made.analyzer, call |-> report,
              ui |-> [msg |-> "error", text |-> report.value]]
        ELSE [analyzer |-> made.analyzer, call |-> report,
              ui |-> [msg |-> "report", text |-> report.value]]

\* app.py 218-281: the "Analyze My Skill Gap" button
AnalyzeClicked(cv_text, role, api_key_ok, embed_load_ok, embed_query_ok, completion) ==
    \E r \in {RunAnalysis(cv_text, role, api_key_ok, embed_load_ok, embed_query_ok,
                           completion)} :
        /\ IF Strip(cv_text) = << >>
           THEN /\ ui' = [msg |-> "warn_empty_cv", text |-> << >>]
                /\ call' = NoCall
                /\ UNCHANGED analyzer
           ELSE IF ~api_key_ok
           THEN /\ ui' = [msg |-> "api_key_error", text |-> << >>]
                /\ call' = NoCall
                /\ UNCHANGED analyzer
           ELSE /\ ui' = r.ui
                /\ call' = r.call
                /\ analyzer' = r.analyzer
        /\ ingest' = NoIngest
        /\ UNCHANGED << chroma_dir_exists, collection, calls, load >>

Next ==
    \/ \E jobs_dir \in JobDirs, cvs_dir \in CvDirs, fail \in Fails :
           RebuildClicked(jobs_dir, cvs_dir, fail)
    \/ \E jobs_dir \in JobDirs, cvs_dir \in CvDirs, fail \in Fails :
           IngestScript(jobs_dir, cvs_dir, fail)
    \/ \E cv_text \in CvTexts, role \in Roles, env \in Envs :
           AnalyzeClicked(cv_text, role, env.api_key_ok, env.embed_load_ok,
                          env.embed_query_ok, env.completion)

Spec == Init /\ [][Next]_vars

\* the UI session alone: nothing but the two buttons touches the store
NextUi ==
    \/ \E jobs_dir \in JobDirs, cvs_dir \in CvDirs, fail \in Fails :
           RebuildClicked(jobs_dir, cvs_dir, fail)
    \/ \E cv_text \in CvTexts, role \in Roles, env \in Envs :
           AnalyzeClicked(cv_text, role, env.api_key_ok, env.embed_load_ok,
                          env.embed_query_ok, env.completion)

SpecUi == Init /\ [][NextUi]_vars

\* ------------------------------------------------------------------ load_documents on its own
FileUniverse == << J1, J2, J3, J4, J5, J6 >>

\* the files of the universe at the positions of S, in the universe's order
RECURSIVE Listing(_, _)
Listing(S, i) ==
    IF i > Len(FileUniverse) THEN << >>
    ELSE (IF i \in S THEN << FileUniverse[i] >> ELSE << >>) \o Listing(S, i + 1)

LoadDirs == {MissingDir} \cup {Dir(Listing(S, 1)) : S \in SUBSET (1..Len(FileUniverse))}

InitLoad ==
    /\ chroma_dir_exists = FALSE
    /\ collection = << >>
    /\ calls = 0
    /\ analyzer = NoAnalyzer
    /\ ui = NoUi
    /\ call = NoCall
    /\ ingest = NoIngest
    /\ \E d \in LoadDirs, t \in {DOC_TYPE_JOB, DOC_TYPE_CV} :
           load = [NoLoad EXCEPT !.directory = d, !.doc_type = t]

\* one call load_documents(directory, doc_type)
LoadDocuments ==
    LET r == load_documents(load.directory, load.doc_type)
    IN  /\ ~load.done
        /\ load' = [load EXCEPT !.done = TRUE, !.raised = r.raised,
                                !.documents = r.documents, !.warnings = r.warnings]
        /\ UNCHANGED << chroma_dir_exists, collection, calls, analyzer, ui, call, ingest >>

NextLoad == LoadDocuments

SpecLoad == InitLoad /\ [][NextLoad]_vars

\* ------------------------------------------------------------------ the analyzer's API on any store
Digits == << "1", "2", "3", "4", "5", "6", "7", "8", "9" >>
JobTexts == << BackendJob, MlJob, WebJob >>

\* the i-th job chunk and CV chunk of a store, as run_ingestion tags them
JobChunk(i) ==
    [page_content |-> JobTexts[((i - 1) % Len(JobTexts)) + 1],
     metadata |-> [doc_type |-> DOC_TYPE_JOB,
                   source_name |-> << "j", Digits[i] >> \o TxtExt]]
CvChunk(i) ==
    [page_content |-> SkillsPython,
     metadata |-> [doc_type |-> DOC_TYPE_CV,
                   source_name |-> << "c", Digits[i] >> \o TxtExt]]
JobChunks(n) == [i \in 1..n |-> JobChunk(i)]
CvChunks(n) == [i \in 1..n |-> CvChunk(i)]

\* a store written by one run (jobs, then CVs), and one written by two runs (a
\* run that found only CVs, then a run that found only jobs)
OneRun(nj, nc) == FromDocuments(<< >>, JobChunks(nj) \o CvChunks(nc), 1)
TwoRuns(nj, nc) == FromDocuments(FromDocuments(<< >>, CvChunks(nc), 1), JobChunks(nj), 2)

InitAnalyzer ==
    /\ chroma_dir_exists = TRUE
    /\ \E nj \in 0..MaxJobRecords, nc \in 0..MaxCvRecords :
           \/ collection = OneRun(nj, nc) /\ calls = 1
           \/ collection = TwoRuns(nj, nc) /\ calls = 2
    /\ analyzer = [present |-> TRUE, constructed_at |-> calls]
    /\ ui = NoUi
    /\ call = NoCall
    /\ ingest = NoIngest
    /\ load = NoLoad

\* analyzer.get_relevant_jobs(role) and analyzer.get_relevant_jobs(role, k)
CallGetRelevantJobs(role, k, embed_ok) ==
    /\ analyzer.present
    /\ call' = IF embed_ok
               THEN [NoCall EXCEPT !.fn = "get_relevant_jobs", !.role = role, !.k = k,
                                   !.outcome = "returned",
                                   !.relevant_jobs = get_relevant_jobs(collection, role, k),
                                   !.events = << "embed_query" >>]
               ELSE [NoCall EXCEPT !.fn = "get_relevant_jobs", !.role = role, !.k = k,
                                   !.outcome = "raised",
                                   !.value = << "embedding failed" >>,
                                   !.events = << "embed_query" >>]
    /\ UNCHANGED << chroma_dir_exists, collection, calls, analyzer, ui, ingest, load >>

\* analyzer.analyze_gap(cv_text, role)
CallAnalyzeGap(cv_text, role, embed_ok, completion) ==
    /\ analyzer.present
    /\ call' = analyze_gap(collection, cv_text, role, embed_ok, completion)
    /\ UNCHANGED << chroma_dir_exists, collection, calls, analyzer, ui, ingest, load >>

NextAnalyzer ==
    \/ \E role \in Roles, k \in {None} \cup (1..MaxK), embed_ok \in BOOLEAN :
           CallGetRelevantJobs(role, k, embed_ok)
    \/ \E cv_text \in CvTexts, role \in Roles, embed_ok \in BOOLEAN,
          completion \in Completions :
           CallAnalyzeGap(cv_text, role, embed_ok, completion)

SpecAnalyzer == InitAnalyzer /\ [][NextAnalyzer]_vars

\* ------------------------------------------------------------------ the pipeline on longer texts
MaxShortLen == 3    \* the short file contents are all the texts up to this length

\* n copies of a character, and the i-th letter of a text's pieces
Letters(ch, n) == [i \in 1..n |-> ch]
PieceLetters == << "a", "b", "c", "d", "e", "f", "g" >>
PieceLetter(i) == PieceLetters[((i - 1) % Len(PieceLetters)) + 1]

\* n pieces of len letters each, a different letter from piece to piece, with
\* sep between them
PiecesText(sep, len, n) ==
    Join(sep, [i \in 1..n |-> Letters(PieceLetter(i), len)])

\* every text over the characters of S up to length n
RECURSIVE TextsUpTo(_, _)
TextsUpTo(S, n) ==
    IF n = 0 THEN {<< >>}
    ELSE TextsUpTo(S, n - 1)
         \cup {Append(t, ch) : t \in {u \in TextsUpTo(S, n - 1) : Len(u) = n - 1}, ch \in S}

ShortTexts == TextsUpTo({"a", " ", NL}, MaxShortLen)

\* <piece length, pieces>: under the chunk size as a whole; pieces within the
\* overlap one at a time; pieces longer than the overlap; pieces of which
\* several fit the overlap; one piece longer than a chunk
Shapes == {<< 40, 10 >>, << 40, 20 >>, << 300, 3 >>, << 9, 60 >>, << 600, 1 >>}
LongTexts ==
    {PiecesText(Separators[i], shape[1], shape[2]) : i \in 1..5, shape \in Shapes}
PaddedTexts == {<< " " >> \o t \o << NL >> : t \in LongTexts}

ChunkTexts == ShortTexts \cup LongTexts \cup PaddedTexts

\* the two directories, one .txt file in the job directory
ChunkJobDirs == {Dir(<< File(J1.name, TRUE, << t >>) >>) : t \in ChunkTexts}
ChunkCvDirs ==
    {Dir(<< >>), Dir(<< C1File >>),
     Dir(<< File(C1File.name, TRUE, << PiecesText(<< NL >>, 300, 2) >>) >>)}

\* one run of `python ingest.py` on a store that was never written
IngestOnce(jobs_dir, cvs_dir) ==
    /\ calls = 0
    /\ ingest.outcome = "none"
    /\ IngestScript(jobs_dir, cvs_dir, "none")

NextChunk == \E jobs_dir \in ChunkJobDirs, cvs_dir \in ChunkCvDirs : IngestOnce(jobs_dir, cvs_dir)

SpecChunk == Init /\ [][NextChunk]_vars

\* ------------------------------------------------------------------ claims
JobPositions == {i \in 1..Len(collection) : collection[i].metadata.doc_type = DOC_TYPE_JOB}
CvPositions == {i \in 1..Len(collection) : collection[i].metadata.doc_type = DOC_TYPE_CV}
AnalysisRan == ui.msg \in {"report", "error", "vector_store_not_found"}

\* C1 (as claimed): after a run_ingestion that completed, the persisted
\* collection holds exactly the chunks of that run, and nothing an earlier
\* rebuild wrote.
C1_RebuildReplaces ==
    ingest.outcome = "vector_store" =>
        /\ Len(collection) = Len(ingest.chunks)
        /\ \A i \in 1..Len(collection) :
               /\ collection[i].page_content = ingest.chunks[i].page_content
               /\ collection[i].metadata = ingest.chunks[i].metadata

\* C2: every chunk get_relevant_jobs returns is tagged as a job description,
\* and no CV-tagged record's text is in the job context of analyze_gap.
C2_OnlyJobsRetrieved ==
    /\ \A i \in 1..Len(call.relevant_jobs) :
           call.relevant_jobs[i].metadata.doc_type = DOC_TYPE_JOB
    /\ \A i \in CvPositions : ~Contains(call.job_context, collection[i].page_content)

\* C2's case: a retrieval that returned fewer chunks than asked for from a
\* store whose first record is a CV.
C2_Witness ==
    /\ call.fn \in {"get_relevant_jobs", "analyze_gap"}
    /\ call.relevant_jobs # << >>
    /\ Len(call.relevant_jobs) < RETRIEVAL_K
    /\ 1 \in CvPositions

\* C3 (as claimed): analyze_gap returns a string and raises nothing, whichever
\* external service fails.
C3_NeverRaises == call.fn = "analyze_gap" => call.outcome = "returned"

\* C4: when the store has no job-tagged record, an analyze_gap whose retrieval
\* went through returns the fixed message, whatever the CV and the role, and
\* the completion service is not invoked.
C4_NoJobsFixedMessage ==
    (call.fn = "analyze_gap" /\ call.outcome = "returned" /\ JobPositions = {}) =>
        /\ call.value = NoJobsMessage
        /\ \A i \in 1..Len(call.events) : call.events[i] # "completion"

\* C4's case: such a call on a store that holds CV records only.
C4_Witness ==
    /\ call.fn = "analyze_gap"
    /\ call.outcome = "returned"
    /\ JobPositions = {}
    /\ CvPositions # {}

\* C5 (as claimed): with the persist directory never created, a request that
\* reaches the analysis shows the fixed "no relevant job descriptions" message.
C5_EmptyStoreFixedMessage ==
    (~chroma_dir_exists /\ ui.msg \in {"report", "vector_store_not_found"}) =>
        /\ ui.msg = "report"
        /\ ui.text = NoJobsMessage

\* C5 (amended): with the persist directory never created, a request that
\* reaches the analysis never calls analyze_gap: the construction of the
\* analyzer raises, the UI shows the "Vector store not found" instruction (or
\* the embedding model's load error), nothing is cached and no external call
\* of the analysis is made.
C5_NoStoreNoAnalysis ==
    (~chroma_dir_exists /\ AnalysisRan) =>
        /\ call = NoCall
        /\ ~analyzer.present
        /\ \/ ui.msg = "vector_store_not_found"
           \/ ui.msg = "error" /\ ui.text = << "Exception" >>

\* C5's case: the instruction shown while the directory does not exist.
C5_Witness == ~chroma_dir_exists /\ ui.msg = "vector_store_not_found"

\* C6 (as claimed): as long as no rebuild has persisted anything, an analysis
\* request is not answered with a result: no report is shown.
C6_NotFoundBeforeRebuild ==
    (calls = 0 /\ ui.msg \in {"report", "vector_store_not_found"}) =>
        ui.msg = "vector_store_not_found"

C8_SourceLabel == << "*", "*", "S", "o", "u", "r", "c", "e", ":", "*", "*", " " >>
C8_EntryLen(doc) ==
    Len(C8_SourceLabel) + Len(doc.metadata.source_name) + 2 + Len(doc.page_content)
RECURSIVE C8_Offset(_, _)
C8_Offset(docs, i) ==
    IF i = 1 THEN 1 ELSE C8_Offset(docs, i - 1) + C8_EntryLen(docs[i - 1]) + 7

\* C8: the job context is the retrieved chunks in retrieval order, each as
\* "**Source:** <source name>\n\n<text>", joined by "\n\n---\n\n", every
\* chunk's text in it unmodified.
C8_ContextLiteral ==
    (call.fn = "analyze_gap" /\ call.relevant_jobs # << >>) =>
        LET docs == call.relevant_jobs
            n == Len(docs)
        IN  /\ Len(call.job_context) = C8_Offset(docs, n) + C8_EntryLen(docs[n]) - 1
            /\ \A i \in 1..n :
                   /\ MatchAt(call.job_context, C8_SourceLabel, C8_Offset(docs, i))
                   /\ MatchAt(call.job_context, docs[i].metadata.source_name,
                              C8_Offset(docs, i) + Len(C8_SourceLabel))
                   /\ MatchAt(call.job_context, << NL, NL >> \o docs[i].page_content,
                              C8_Offset(docs, i) + Len(C8_SourceLabel)
                                + Len(docs[i].metadata.source_name))
            /\ \A i \in 1..(n - 1) :
                   MatchAt(call.job_context, << NL, NL, "-", "-", "-", NL, NL >>,
                           C8_Offset(docs, i) + C8_EntryLen(docs[i]))

\* C8's case: the CV "SKILLS: Python" against a store of the single job chunk
\* "JOB TITLE: Backend Developer\nRequires: Python, SQL".
C8_Witness ==
    /\ call.fn = "analyze_gap"
    /\ call.cv_text = SkillsPython
    /\ Len(collection) = 1
    /\ collection[1].page_content = BackendJob
    /\ Contains(call.job_context, BackendJob)

\* C9: get_relevant_jobs(role, k) on a store of n job chunks returns min(k, n)
\* chunks, with k = RETRIEVAL_K when omitted, all of them distinct records of
\* the store; it raises only when the embedding of the query does.
C9_MinOfKAndN ==
    call.fn = "get_relevant_jobs" =>
        LET k == IF call.k = None THEN RETRIEVAL_K ELSE call.k
            n == Cardinality(JobPositions)
        IN  /\ call.outcome = "raised" => call.value = << "embedding failed" >>
            /\ call.outcome = "returned" =>
                   /\ Len(call.relevant_jobs) = (IF k <= n THEN k ELSE n)
                   /\ Cardinality({call.relevant_jobs[i].id :
                                     i \in 1..Len(call.relevant_jobs)})
                        = Len(call.relevant_jobs)
                   /\ \A i \in 1..Len(call.relevant_jobs) :
                          \E j \in JobPositions : collection[j] = call.relevant_jobs[i]

\* C9's case: k omitted on a store of three job chunks, all three returned.
C9_Witness ==
    /\ call.fn = "get_relevant_jobs"
    /\ call.k = None
    /\ call.outcome = "returned"
    /\ Cardinality(JobPositions) = 3
    /\ Len(call.relevant_jobs) = 3

\* C10 (as claimed): every readable .txt or .pdf file of the directory is
\* returned as a Document, whatever else the directory holds.
C10_ReadableFilesLoaded ==
    (load.done /\ load.raised = "none") =>
        \A i \in 1..Len(load.directory.files) :
            LET f == load.directory.files[i]
            IN  (f.readable /\ (EndsWith(f.name, << ".", "t", "x", "t" >>)
                                \/ EndsWith(f.name, << ".", "p", "d", "f" >>))) =>
                    \E d \in 1..Len(load.documents) :
                        load.documents[d].metadata.source_name = f.name

\* C11: a run_ingestion that finds the job directory or the CV directory
\* missing returns None at that stage: nothing is chunked or written, and the
\* persisted collection and its directory are as they were before the run.
C11_MissingDirectoryHalts ==
    [][(ingest'.outcome # "none"
          /\ (~ingest'.jobs_dir_exists \/ ~ingest'.cvs_dir_exists)) =>
        /\ ingest'.outcome = "None"
        /\ ingest'.stage = (IF ~ingest'.jobs_dir_exists THEN "load_jobs" ELSE "load_cvs")
        /\ ingest'.chunks = << >>
        /\ ~ingest'.wrote
        /\ collection' = collection
        /\ chroma_dir_exists' = chroma_dir_exists
        /\ calls' = calls]_vars

\* C11's case: the job directory holds documents, the CV directory is missing,
\* and a store written earlier is still there after the run.
C11_Witness ==
    /\ ingest.outcome = "None"
    /\ ingest.stage = "load_cvs"
    /\ ingest.jobs_dir_exists
    /\ ingest.documents # << >>
    /\ collection # << >>

\* C15 (as claimed): an analysis runs on a cached analyzer that was constructed
\* after the last rebuild that changed the store, and a construction that
\* raises leaves nothing cached.
C15_AnalyzerFresh ==
    /\ call.fn = "analyze_gap" => (analyzer.present /\ analyzer.constructed_at = calls)
    /\ ui.msg = "vector_store_not_found" => ~analyzer.present

\* C16 (as claimed): the success message is shown only for a run_ingestion
\* that wrote the vector store.
C16_SuccessOnlyAfterWrite == ui.msg = "rebuild_success" => ingest.wrote

\* the last run got as far as chunking its documents
Chunked == ingest.stage \in {"create_embeddings", "create_vector_store", "summary"}

\* the chunks of the last run that come from document d, in order
ChunksFrom(d) == SelectSeq(ingest.chunks, LAMBDA c : c.metadata.source_name = d.metadata.source_name)

\* the last k characters of a text
Suffix(text, k) == SubSeq(text, Len(text) - k + 1, Len(text))

\* C12: every chunk of a run carries the metadata of the document it was cut
\* from and is a span of that document's content, and every persisted record
\* is labelled job when its file is of the job directory and CV when its file
\* is of the CV directory.
C12_MetadataInherited ==
    /\ \A i \in 1..Len(ingest.chunks) :
           \E j \in 1..Len(ingest.documents) :
               /\ ingest.chunks[i].metadata = ingest.documents[j].metadata
               /\ Contains(ingest.documents[j].page_content, ingest.chunks[i].page_content)
    /\ \A i \in 1..Len(collection) :
           /\ collection[i].metadata.doc_type \in {DOC_TYPE_JOB, DOC_TYPE_CV}
           /\ collection[i].metadata.doc_type = DOC_TYPE_JOB
                  <=> collection[i].metadata.source_name = J1.name
           /\ collection[i].metadata.doc_type = DOC_TYPE_CV
                  <=> collection[i].metadata.source_name = C1File.name

\* C12's case: a run wrote the chunks of a job document and of a CV document,
\* each cut into several chunks.
C12_Witness ==
    /\ ingest.wrote
    /\ Cardinality(JobPositions) >= 2
    /\ Cardinality(CvPositions) >= 2
    /\ Len(ingest.documents) = 2

\* C13 (as claimed): a document shorter than the chunk size yields exactly one
\* chunk, and its text is the document's content unchanged.
C13_ShortDocumentUnchanged ==
    \A j \in 1..Len(ingest.documents) :
        LET d == ingest.documents[j]
        IN  (Chunked /\ Len(d.page_content) < CHUNK_SIZE) =>
                ChunksFrom(d) = << [page_content |-> d.page_content, metadata |-> d.metadata] >>

\* C13 (amended): a document shorter than the chunk size yields one chunk, the
\* content without the whitespace at its two ends, or no chunk when the
\* content is blank; chunking that chunk again yields the same single chunk.
C13_ShortDocumentStripped ==
    \A j \in 1..Len(ingest.documents) :
        LET d == ingest.documents[j]
            text == Strip(d.page_content)
        IN  (Chunked /\ Len(d.page_content) < CHUNK_SIZE) =>
                /\ ChunksFrom(d) = IF text = << >> THEN << >>
                                   ELSE << [page_content |-> text, metadata |-> d.metadata] >>
                /\ chunk_documents(ChunksFrom(d)) = ChunksFrom(d)

\* C13's case: a run chunked a short document that has whitespace at an end
\* and text between, and kept one chunk of it.
C13_Witness ==
    \E j \in 1..Len(ingest.documents) :
        LET d == ingest.documents[j]
        IN  /\ ingest.wrote
            /\ Len(d.page_content) < CHUNK_SIZE
            /\ Len(d.page_content) > CHUNK_OVERLAP
            /\ Strip(d.page_content) # d.page_content
            /\ Len(ChunksFrom(d)) = 1

\* C14 (as claimed): two adjacent chunks of the same document share text at
\* the boundary, the end of the earlier one being the start of the later one
\* over some length up to the overlap of 50.
C14_AdjacentChunksOverlap ==
    \A j \in 1..Len(ingest.documents) :
        LET cs == ChunksFrom(ingest.documents[j])
        IN  \A i \in 1..(Len(cs) - 1) :
                \E k \in 1..CHUNK_OVERLAP :
                    /\ k <= Len(cs[i].page_content)
                    /\ k <= Len(cs[i + 1].page_content)
                    /\ Suffix(cs[i].page_content, k) = Take(cs[i + 1].page_content, k)

====
